---- MODULE Spec2Model ----
(***************************************************************************)
(* mkfs for the RAID-aware "wfs" filesystem (src/mkfs.c): the layout       *)
(* calculator, the per-disk metadata initialisers, the root inode          *)
(* bootstrapper and the multi-disk loop of main, as a state machine over   *)
(* the disk images.                                                        *)
(*                                                                         *)
(* size_t is 64 bits wide.  TLC's integers are 32 bits wide, so a size_t   *)
(* value is a little-endian sequence of NLimbs limbs of LimbBits bits and  *)
(* the arithmetic of the code is done limb by limb, dropping the carry out *)
(* of the top limb exactly as unsigned arithmetic modulo 2^64 does.        *)
(***************************************************************************)
EXTENDS Integers, Sequences, FiniteSets, TLC

(* ------------------------------ bounds -------------------------------- *)

\* The largest number of -d options given on the command line.
MaxDisks == 2
\* The clock (seconds) runs from 0 to MaxTime.
MaxTime == 1
\* The passes of the loop of initialize_inodes at which a failure of pwrite is
\* tried: its first MaxPasses passes.
MaxPasses == 64
\* The short writes tried byte by byte: those of at most MaxShort bytes.
MaxShort == 120

(* ------------------------- platform constants ------------------------- *)

LimbBits == 16
NLimbs == 4
Base == 2^LimbBits
BLOCK_SIZE == 512
SizeofInt == 4
SizeofSb == 48
SizeofInode == 120
S_IFDIR == 16384
RootPerm == 493
EXIT_FAILURE == 1
ExitMinusOne == 255
\* The most one call of write or pwrite transfers on Linux (0x7ffff000).
MAX_RW_COUNT == 2147479552

(* ----------------------- unsigned limb arithmetic --------------------- *)

RECURSIVE FromNat(_, _)
\* The n-limb representation of the small natural x.
FromNat(x, n) ==
    IF n = 0 THEN <<>> ELSE <<x % Base>> \o FromNat(x \div Base, n - 1)

RECURSIVE AddLimbs(_, _, _)
\* a + b + c on equally long limb sequences; the carry out of the top is dropped.
AddLimbs(a, b, c) ==
    IF a = <<>> THEN <<>>
    ELSE LET s == Head(a) + Head(b) + c
         IN  <<s % Base>> \o AddLimbs(Tail(a), Tail(b), s \div Base)

RECURSIVE MulLimbs(_, _, _)
\* a * m + c for a small natural m; the carry out of the top is dropped.
MulLimbs(a, m, c) ==
    IF a = <<>> THEN <<>>
    ELSE LET s == Head(a) * m + c
         IN  <<s % Base>> \o MulLimbs(Tail(a), m, s \div Base)

RECURSIVE DivRem(_, _)
\* Quotient and remainder of a by the small natural d (long division).
DivRem(a, d) ==
    IF a = <<>> THEN [q |-> <<>>, r |-> 0]
    ELSE LET hi == DivRem(Tail(a), d)
             cur == hi.r * Base + Head(a)
         IN  [q |-> <<cur \div d>> \o hi.q, r |-> cur % d]

RECURSIVE CmpLimbs(_, _)
\* -1, 0, 1 as a < b, a = b, a > b (the top limb decides first).
CmpLimbs(a, b) ==
    IF a = <<>> THEN 0
    ELSE LET h == CmpLimbs(Tail(a), Tail(b))
         IN  IF h # 0 THEN h
             ELSE IF Head(a) < Head(b) THEN -1
             ELSE IF Head(a) > Head(b) THEN 1 ELSE 0

\* size_t values and the operators of the code on them.
Sz(x) == FromNat(x, NLimbs)
SzAdd(a, b) == AddLimbs(a, b, 0)
SzAddK(a, k) == AddLimbs(a, Sz(k), 0)
SzMul(a, k) == MulLimbs(a, k, 0)
SzDiv(a, k) == DivRem(a, k).q
SzGt(a, b) == CmpLimbs(a, b) = 1
SzSub(a, b) == AddLimbs(a, [k \in 1..Len(b) |-> Base - 1 - b[k]], 1)
SIZE_MAX == [k \in 1..NLimbs |-> Base - 1]
SSIZE_MAX == [k \in 1..NLimbs |-> IF k = NLimbs THEN Base \div 2 - 1 ELSE Base - 1]
SzZero == Sz(0)
\* A ssize_t value (-1, or a count) converted to size_t.
AsSize(ret) == IF ret < 0 THEN SIZE_MAX ELSE Sz(ret)

\* A size_t value small enough to be a TLC integer (below 2^31).
Fits(w) == /\ w[2] < Base \div 2
           /\ \A k \in 3..Len(w) : w[k] = 0
ToNat(w) == w[1] + w[2] * Base

\* The size_t value is above the largest signed value of its width: as an
\* off_t it is negative, as an object size it is above PTRDIFF_MAX.
AboveSignedMax(w) == w[NLimbs] >= Base \div 2

(* --------------------------- layout calculator ------------------------ *)

\* (n + 31) / 32 * 32 in size_t arithmetic.
RoundUp32(n) == SzMul(SzDiv(SzAddK(n, 31), 32), 32)

\* (num_bits + 31) / 32 * sizeof(int) in size_t arithmetic.
BitmapBytes(num_bits) == SzMul(SzDiv(SzAddK(num_bits, 31), 32), SizeofInt)

\* (x + BLOCK_SIZE - 1) / BLOCK_SIZE * BLOCK_SIZE in size_t arithmetic.
BlockAlign(x) == SzMul(SzDiv(SzAddK(x, BLOCK_SIZE - 1), BLOCK_SIZE), BLOCK_SIZE)

\* A mutant of initialize_superblock: a disk with room to spare is given 32 more blocks.
initialize_superblock_clamped(ni_req, nb, disk_size) ==
    LET ni  == RoundUp32(ni_req)
        ibp == Sz(SizeofSb)
        dbp == SzAdd(ibp, BitmapBytes(ni))
        itp == BlockAlign(SzAdd(dbp, BitmapBytes(nb)))
        drp == BlockAlign(SzAdd(itp, SzMul(ni, BLOCK_SIZE)))
        fit == ~SzGt(SzAdd(drp, SzMul(nb, BLOCK_SIZE)), disk_size)
        cap == IF SzGt(disk_size, SzAdd(drp, SzMul(nb, BLOCK_SIZE)))
                 THEN SzAddK(nb, 32) ELSE nb
    IN  [sb |-> [num_inodes |-> ni, num_data_blocks |-> cap,
                 i_bitmap_ptr |-> ibp, d_bitmap_ptr |-> dbp,
                 i_blocks_ptr |-> itp, d_blocks_ptr |-> drp],
         fits |-> fit]

\* initialize_superblock: the superblock it fills in, and whether its check passes.
initialize_superblock(ni_req, nb, disk_size) ==
    LET ni  == RoundUp32(ni_req)
        ibp == Sz(SizeofSb)
        dbp == SzAdd(ibp, BitmapBytes(ni))
        itp == BlockAlign(SzAdd(dbp, BitmapBytes(nb)))
        drp == BlockAlign(SzAdd(itp, SzMul(ni, BLOCK_SIZE)))
        fit == ~SzGt(SzAdd(drp, SzMul(nb, BLOCK_SIZE)), disk_size)
    IN  [sb |-> [num_inodes |-> ni, num_data_blocks |-> nb,
                 i_bitmap_ptr |-> ibp, d_bitmap_ptr |-> dbp,
                 i_blocks_ptr |-> itp, d_blocks_ptr |-> drp],
         fits |-> fit]

(* ------------------------------ disk images --------------------------- *)

\* struct wfs_inode empty_inode = {0}.
empty_inode ==
    [num |-> 0, mode |-> 0, uid |-> 0, gid |-> 0, size |-> 0, nlinks |-> 0,
     atim |-> 0, mtim |-> 0, ctim |-> 0, blocks |-> {0}]

\* An image is what a run has written over the old content of the file,
\* which is arbitrary.  On top, the cells that single records or words were
\* written to, keyed by byte offset: a cell at an offset below 2^31 by the
\* offset as an integer (cells), a cell at any other offset by the size_t
\* value (far).  Under them the rows written, in the order they were written
\* in (rows).  A row is count items, one every step bytes from byte offset
\* off, the first of them first, the others rest: the words of a bitmap
\* buffer, or the records of the loop of initialize_inodes.
GarbageCell == [t |-> "garbage"]
TornCell == [t |-> "torn"]
WordCell(w) == [t |-> "word", w |-> w]
InodeCell(ino) == [t |-> "inode", ino |-> ino]
SbCell(sb) == [t |-> "sb", sb |-> sb]
NoCells == [cells |-> [o \in {} |-> GarbageCell], far |-> [o \in {} |-> GarbageCell],
            rows |-> <<>>]

\* Byte offset off is where an item of the row r starts: off = r.off +
\* j * r.step for a j < r.count.
InRow(r, off) ==
    LET d == DivRem(SzSub(off, r.off), r.step)
    IN  d.r = 0 /\ CmpLimbs(d.q, r.count) = 0 - 1

\* One cell written at byte offset off, over whatever was there.
Put(img, off, v) ==
    IF Fits(off)
      THEN [img EXCEPT !.cells = [o \in DOMAIN img.cells \cup {ToNat(off)} |->
                                    IF o = ToNat(off) THEN v ELSE img.cells[o]]]
      ELSE [img EXCEPT !.far = [o \in DOMAIN img.far \cup {off} |->
                                  IF o = off THEN v ELSE img.far[o]]]

\* The row r written, over whatever was there.
PutRow(img, r) ==
    IF r.count = SzZero THEN img
    ELSE [cells |-> [o \in {x \in DOMAIN img.cells : ~InRow(r, Sz(x))} |-> img.cells[o]],
          far |-> [o \in {x \in DOMAIN img.far : ~InRow(r, x)} |-> img.far[o]],
          rows |-> Append(img.rows, r)]

\* The buffer of a pwrite call: one record of size bytes (val is its cell),
\* or the buffer of initialize_bitmap, size bytes of words (val is the value
\* of the first word, the others are zero).
RecordBuffer(size, val) == [words |-> FALSE, size |-> Sz(size), val |-> val]

\* The first n bytes of a buffer laid down from byte offset off: a record is
\* written whole or torn; of the words of a bitmap buffer those the n bytes
\* cover are written whole, a word they end inside of is torn, the words
\* after it are not touched.
Place(img, off, buf, n) ==
    IF n = 0 THEN img
    ELSE IF ~buf.words
      THEN Put(img, off, IF Sz(n) = buf.size THEN buf.val ELSE TornCell)
    ELSE LET whole == n \div SizeofInt
             laid == PutRow(img, [off |-> off, step |-> SizeofInt, count |-> Sz(whole),
                                  first |-> WordCell(buf.val), rest |-> WordCell(0)])
         IN  IF n % SizeofInt = 0 THEN laid
             ELSE Put(laid, SzAddK(off, SizeofInt * whole), TornCell)

\* The most bytes one pwrite call of count bytes transfers.
Transferable(count) ==
    IF Fits(count) /\ ToNat(count) <= MAX_RW_COUNT THEN ToNat(count) ELSE MAX_RW_COUNT

\* What a pwrite call of count bytes may do: fail (-1), or transfer any number
\* of bytes from 0 to the most one call transfers.  Of the short writes of
\* more than MaxShort bytes one is tried, the longest.
WriteOutcomes(count) ==
    LET most == Transferable(count)
    IN  IF most <= MaxShort THEN (0 - 1)..most
        ELSE ((0 - 1)..MaxShort) \cup {most}

\* pwrite(fd, buf, count, offset), asked by the environment to transfer n
\* bytes (n < 0: to fail): the count returned and the image left.  An offset
\* that is negative as an off_t is refused.
pwrite(img, buf, off, n) ==
    IF n < 0 \/ AboveSignedMax(off)
      THEN [ret |-> 0 - 1, img |-> img]
      ELSE [ret |-> n, img |-> Place(img, off, buf, n)]

\* A mutant of WriteFailed: only an error return is taken as a failure.
WriteFailedOnErrorOnly(ret, count) == ret < 0

\* The test of every pwrite in the code: pwrite(...) != count, both sides of
\* one width.
WriteFailed(ret, count) == AsSize(ret) # count

(* ------------------------------- records ------------------------------ *)

\* A mutant of MakeRootInode: the size field takes a clock reading.
MakeRootInodeSizeFromClock(uid, gid, t1, t2, t3) ==
    [num |-> 0, mode |-> S_IFDIR + RootPerm, uid |-> uid, gid |-> gid, size |-> t1,
     nlinks |-> 2, atim |-> t1, mtim |-> t2, ctim |-> t3, blocks |-> {0}]

\* A mutant of MakeRootInode: the link count of a plain file.
MakeRootInodeOneLink(uid, gid, t1, t2, t3) ==
    [num |-> 0, mode |-> S_IFDIR + RootPerm, uid |-> uid, gid |-> gid, size |-> 0,
     nlinks |-> 1, atim |-> t1, mtim |-> t2, ctim |-> t3, blocks |-> {0}]

\* The root inode of initialize_root_inode; the members not named (the block
\* pointers) are zero.  blocks is the set of values the pointer array holds.
MakeRootInode(uid, gid, t1, t2, t3) ==
    [num |-> 0, mode |-> S_IFDIR + RootPerm, uid |-> uid, gid |-> gid, size |-> 0,
     nlinks |-> 2, atim |-> t1, mtim |-> t2, ctim |-> t3, blocks |-> {0}]

\* The buffer of initialize_bitmap: bitmap_size bytes of zero words, the
\* first word 1 when allocate_first.
BitmapBuffer(num_bits, allocate_first) ==
    [words |-> TRUE, size |-> BitmapBytes(num_bits),
     val |-> IF allocate_first THEN 1 ELSE 0]

\* What calloc or malloc may do.
AllocOutcomes == {"ok", "null"}

\* Whether an allocation of size bytes can return the outcome: NULL always,
\* a block whenever the size is an object size (at most PTRDIFF_MAX).
CanAlloc(size, outcome) == outcome = "null" \/ ~AboveSignedMax(size)

(* -------------------------------- state ------------------------------- *)

VARIABLES
    argv,         \* the command line: [r, d, i, b], already converted by atoi/strtoul
    disk_size,    \* environment: the size of each disk file, as lseek reports it
    raid_mode, num_disks, num_inodes, num_blocks,   \* locals of main
    superblock,   \* main's struct wfs_sb, shared by every iteration
    root_inode,   \* initialize_root_inode's struct wfs_inode
    i,            \* the disk index of the loop that is running
    pc,           \* the position in main
    exit_status,  \* the exit status of the process, NotExited while it runs
    disk,         \* the cells written to each disk image
    now,          \* the clock
    log,          \* ghost: the pwrite calls issued, in order
    failed,       \* ghost: the step that failed, "none" if none did
    run,          \* ghost: 1 in the first format run, 2 in a repeated one
    prev          \* ghost: the images the first run left

vars == <<argv, disk_size, raid_mode, num_disks, num_inodes, num_blocks,
          superblock, root_inode, i, pc, exit_status, disk, now, log, failed,
          run, prev>>

NotExited == 0 - 1
Disks == 0..(MaxDisks - 1)

\* The values the environment is drawn from.  -r: none given (-1), or mode 0;
\* the code reads raid_mode in the usage check only, where 1 passes as 0 does.
RaidArgs == {0 - 1, 0}
InodeArgs == {Sz(0), Sz(1), Sz(33), SIZE_MAX}
BlockArgs == {Sz(0), Sz(1), Sz(33), SIZE_MAX}
DiskSizes == {33279, 33280, 49664}
Users == {[uid |-> 0, gid |-> 0], [uid |-> 1000, gid |-> 100]}
\* What time(NULL) may return: the clock has not moved since it was last read,
\* or it has run on to MaxTime.
Readings(t) == {t, MaxTime}

\* Uninitialised automatic storage: no field has been assigned.
Unset == [num_inodes |-> SzZero, num_data_blocks |-> SzZero,
          i_bitmap_ptr |-> SzZero, d_bitmap_ptr |-> SzZero,
          i_blocks_ptr |-> SzZero, d_blocks_ptr |-> SzZero]

\* The state when main is entered.  The disks are given largest first (what
\* the run does with a disk depends only on whether the layout fits it), and
\* the files the command line does not name are not opened.
Init ==
    /\ argv \in [r : RaidArgs, d : 1..MaxDisks, i : InodeArgs, b : BlockArgs]
    /\ disk_size \in [Disks -> DiskSizes]
    /\ \A d \in Disks : d >= argv.d => disk_size[d] = 33279
    /\ \A d \in Disks : d + 1 < argv.d => disk_size[d] >= disk_size[d + 1]
    /\ raid_mode = 0 - 1
    /\ num_disks = 0
    /\ num_inodes = SzZero
    /\ num_blocks = SzZero
    /\ superblock = Unset
    /\ root_inode = empty_inode
    /\ i = 0
    /\ pc = "args"
    /\ exit_status = NotExited
    /\ disk = [d \in Disks |-> NoCells]
    /\ now = 0
    /\ log = <<>>
    /\ failed = "none"
    /\ run = 1
    /\ prev = [d \in Disks |-> NoCells]

\* exit(code) after the step named step failed.
Exit(code, step) ==
    /\ pc' = "exit"
    /\ exit_status' = code
    /\ failed' = step

\* One pwrite call (for "inodes", one run of the loop of initialize_inodes):
\* what it returned and what it was asked to write, both as size_t values.
Logged(d, op, ret, count) ==
    log' = Append(log, [d |-> d, op |-> op, ret |-> ret, count |-> count])

(* ------------------------------- actions ------------------------------ *)

\* main, lines 121-159: the options, their validation, the rounding of num_blocks.
ParseArgs ==
    /\ pc = "args"
    /\ raid_mode' = argv.r
    /\ num_disks' = argv.d
    /\ num_inodes' = argv.i
    /\ IF argv.r = 0 - 1 \/ argv.d < 2 \/ argv.i = SzZero \/ argv.b = SzZero
         THEN /\ Exit(EXIT_FAILURE, "usage")
              /\ num_blocks' = argv.b
         ELSE /\ num_blocks' = RoundUp32(argv.b)
              /\ pc' = "open"
              /\ UNCHANGED <<exit_status, failed>>
    /\ UNCHANGED <<argv, disk_size, superblock, root_inode, i, disk, now,
                   log, run, prev>>

\* main, lines 164-177: open, lseek, initialize_superblock and its check.
OpenDisk ==
    /\ pc = "open"
    /\ \E outcome \in {"ok", "open_fails", "lseek_fails"} :
         IF outcome = "open_fails"
           THEN Exit(EXIT_FAILURE, "open") /\ UNCHANGED superblock
         ELSE IF outcome = "lseek_fails"
           THEN Exit(EXIT_FAILURE, "lseek") /\ UNCHANGED superblock
         ELSE LET r == initialize_superblock(num_inodes, num_blocks, Sz(disk_size[i]))
              IN  /\ superblock' = r.sb
                  /\ IF r.fits
                       THEN pc' = "write_sb" /\ UNCHANGED <<exit_status, failed>>
                       ELSE Exit(ExitMinusOne, "too_small")
    /\ UNCHANGED <<argv, disk_size, raid_mode, num_disks, num_inodes,
                   num_blocks, root_inode, i, disk, now, log, run, prev>>

\* write_superblock, lines 37-42, called at line 178.
WriteSuperblock ==
    /\ pc = "write_sb"
    /\ \E n \in WriteOutcomes(Sz(SizeofSb)) :
         LET buf == RecordBuffer(SizeofSb, SbCell(superblock))
             w == pwrite(disk[i], buf, SzZero, n)
             bad == WriteFailed(w.ret, buf.size)
         IN  /\ disk' = [disk EXCEPT ![i] = w.img]
             /\ Logged(i, "sb", AsSize(w.ret), buf.size)
             /\ IF bad THEN Exit(EXIT_FAILURE, "sb")
                       ELSE pc' = "ibitmap" /\ UNCHANGED <<exit_status, failed>>
    /\ UNCHANGED <<argv, disk_size, raid_mode, num_disks, num_inodes,
                   num_blocks, superblock, root_inode, i, now, run, prev>>

\* initialize_bitmap, lines 44-64: calloc, the optional first bit, one pwrite.
\* The state it leaves: next is the position main goes on from.
initialize_bitmap(offset, num_bits, allocate_first, op, next) ==
    \/ /\ CanAlloc(BitmapBytes(num_bits), "null")
       /\ Exit(EXIT_FAILURE, "calloc")
       /\ UNCHANGED <<disk, log>>
    \/ /\ CanAlloc(BitmapBytes(num_bits), "ok")
       /\ \E n \in WriteOutcomes(BitmapBytes(num_bits)) :
            LET buf == BitmapBuffer(num_bits, allocate_first)
                w == pwrite(disk[i], buf, offset, n)
                bad == WriteFailed(w.ret, buf.size)
            IN  /\ disk' = [disk EXCEPT ![i] = w.img]
                /\ Logged(i, op, AsSize(w.ret), buf.size)
                /\ IF bad THEN Exit(EXIT_FAILURE, op)
                          ELSE pc' = next /\ UNCHANGED <<exit_status, failed>>

\* main, line 181: the inode bitmap, sized from the requested inode count.
InitInodeBitmap ==
    /\ pc = "ibitmap"
    /\ initialize_bitmap(superblock.i_bitmap_ptr, num_inodes, FALSE, "ibitmap", "dbitmap")
    /\ UNCHANGED <<argv, disk_size, raid_mode, num_disks, num_inodes,
                   num_blocks, superblock, root_inode, i, now, run, prev>>

\* main, line 182: the data bitmap.
InitDataBitmap ==
    /\ pc = "dbitmap"
    /\ initialize_bitmap(superblock.d_bitmap_ptr, num_blocks, FALSE, "dbitmap", "inodes")
    /\ UNCHANGED <<argv, disk_size, raid_mode, num_disks, num_inodes,
                   num_blocks, superblock, root_inode, i, now, run, prev>>

\* inode_offset + j * BLOCK_SIZE in size_t arithmetic: where pass j of
\* initialize_inodes' loop writes.
SlotOffset(inode_offset, j) == SzAdd(inode_offset, SzMul(Sz(j), BLOCK_SIZE))

\* The image after the first k passes of initialize_inodes' loop succeeded:
\* pwrite has put empty_inode at SlotOffset(inode_offset, j) for every j < k,
\* over whatever was there.
WriteSlots(img, inode_offset, k) ==
    PutRow(img, [off |-> inode_offset, step |-> BLOCK_SIZE, count |-> k,
                 first |-> InodeCell(empty_inode), rest |-> InodeCell(empty_inode)])

\* The number of leading passes of the loop whose offset pwrite accepts: pass
\* j is the first refused when inode_offset + j * BLOCK_SIZE is the first of
\* the offsets to be negative as an off_t.
AcceptedPasses(inode_offset) ==
    IF AboveSignedMax(inode_offset) THEN SzZero
    ELSE SzAddK(SzDiv(SzSub(SSIZE_MAX, inode_offset), BLOCK_SIZE), 1)

\* The passes of a loop of n passes at which the environment may make pwrite
\* fail: any of its first MaxPasses passes.
FailSlots(n) ==
    0..((IF Fits(n) /\ ToNat(n) < MaxPasses THEN ToNat(n) ELSE MaxPasses) - 1)

\* A mutant of StageOneDone: the loop over the disks stops after its first pass.
StageOneDoneAfterFirst(idx, n) == TRUE

\* main, line 163: the loop over the disks ends when ++i reaches num_disks.
StageOneDone(idx, n) == ~(idx + 1 < n)

\* initialize_inodes, lines 66-76, called at line 185, and the loop step of
\* line 163.  The loop writes every record, or it stops at the first pass
\* whose pwrite did not return sizeof(empty_inode): a pass the environment
\* fails, or the first pass whose offset pwrite refuses.
InitializeInodes ==
    /\ pc = "inodes"
    /\ LET n == superblock.num_inodes
           base == superblock.i_blocks_ptr
           buf == RecordBuffer(SizeofInode, InodeCell(empty_inode))
           accepted == AcceptedPasses(base)
       IN  \/ /\ ~SzGt(n, accepted)
              /\ UNCHANGED <<exit_status, failed>>
              /\ disk' = [disk EXCEPT ![i] = WriteSlots(disk[i], base, n)]
              /\ Logged(i, "inodes", SzMul(n, SizeofInode), SzMul(n, SizeofInode))
              /\ IF StageOneDone(i, num_disks)
                   THEN pc' = "root_init" /\ i' = i
                   ELSE pc' = "open" /\ i' = i + 1
           \/ /\ Exit(EXIT_FAILURE, "inodes")
              /\ i' = i
              /\ \/ /\ SzGt(n, accepted)
                    /\ disk' = [disk EXCEPT ![i] = WriteSlots(disk[i], base, accepted)]
                    /\ Logged(i, "inodes", AsSize(0 - 1), buf.size)
                 \/ \E k \in FailSlots(n) :
                      /\ SzGt(accepted, Sz(k))
                      /\ LET before == WriteSlots(disk[i], base, Sz(k))
                         IN  \E m \in WriteOutcomes(buf.size) :
                               LET w == pwrite(before, buf, SlotOffset(base, k), m)
                               IN  /\ WriteFailed(w.ret, buf.size)
                                   /\ disk' = [disk EXCEPT ![i] = w.img]
                                   /\ Logged(i, "inodes", AsSize(w.ret), buf.size)
    /\ UNCHANGED <<argv, disk_size, raid_mode, num_disks, num_inodes,
                   num_blocks, superblock, root_inode, now, run, prev>>

\* initialize_root_inode, lines 79-89: the record, from getuid, getgid and
\* three readings of the clock.
RootInit ==
    /\ pc = "root_init"
    /\ \E u \in Users, t1 \in Readings(now) :
         \E t2 \in Readings(t1) :
           \E t3 \in Readings(t2) :
             /\ root_inode' = MakeRootInode(u.uid, u.gid, t1, t2, t3)
             /\ now' = t3
    /\ i' = 0
    /\ pc' = "root_write"
    /\ UNCHANGED <<argv, disk_size, raid_mode, num_disks, num_inodes,
                   num_blocks, superblock, exit_status, disk, log, failed, run, prev>>

\* initialize_root_inode, line 92: the loop ends when ++i reaches num_disks.
RootLoopDone(idx, n) == ~(idx + 1 < n)

\* A mutant of RootBitLoopDone: the loop leaves the last disk out.
RootBitLoopDoneEarly(idx, n) == ~(idx + 2 < n)

\* initialize_root_inode, line 108: the loop ends when ++i reaches num_disks.
RootBitLoopDone(idx, n) == ~(idx + 1 < n)

\* initialize_root_inode, lines 92-97: the root inode to disk i; a failure
\* returns -1 and main (lines 189-195) exits with EXIT_FAILURE.
RootWrite ==
    /\ pc = "root_write"
    /\ \E n \in WriteOutcomes(Sz(SizeofInode)) :
         LET buf == RecordBuffer(SizeofInode, InodeCell(root_inode))
             w == pwrite(disk[i], buf, superblock.i_blocks_ptr, n)
             bad == WriteFailed(w.ret, buf.size)
         IN  /\ disk' = [disk EXCEPT ![i] = w.img]
             /\ Logged(i, "root_inode", AsSize(w.ret), buf.size)
             /\ IF bad THEN Exit(EXIT_FAILURE, "root_inode") /\ i' = i
                ELSE IF RootLoopDone(i, num_disks)
                  THEN pc' = "root_malloc" /\ i' = i /\ UNCHANGED <<exit_status, failed>>
                  ELSE pc' = "root_write" /\ i' = i + 1 /\ UNCHANGED <<exit_status, failed>>
    /\ UNCHANGED <<argv, disk_size, raid_mode, num_disks, num_inodes,
                   num_blocks, superblock, root_inode, now, run, prev>>

\* initialize_root_inode, lines 100-106: the one-word buffer for the bitmap.
RootMalloc ==
    /\ pc = "root_malloc"
    /\ \E alloc \in AllocOutcomes :
         /\ CanAlloc(Sz(SizeofInt), alloc)
         /\ IF alloc = "null"
              THEN Exit(EXIT_FAILURE, "malloc") /\ i' = i
              ELSE pc' = "root_bitmap" /\ i' = 0 /\ UNCHANGED <<exit_status, failed>>
    /\ UNCHANGED <<argv, disk_size, raid_mode, num_disks, num_inodes,
                   num_blocks, superblock, root_inode, disk, now, log, run, prev>>

\* initialize_root_inode, lines 108-117: the word 1 at the inode bitmap of disk
\* i; after the last disk, main (lines 197-203) closes the files and returns 0.
RootBitmap ==
    /\ pc = "root_bitmap"
    /\ \E n \in WriteOutcomes(Sz(SizeofInt)) :
         LET buf == RecordBuffer(SizeofInt, WordCell(1))
             w == pwrite(disk[i], buf, superblock.i_bitmap_ptr, n)
             bad == WriteFailed(w.ret, buf.size)
         IN  /\ disk' = [disk EXCEPT ![i] = w.img]
             /\ Logged(i, "root_bit", AsSize(w.ret), buf.size)
             /\ IF bad THEN Exit(EXIT_FAILURE, "root_bit") /\ i' = i
                ELSE IF RootBitLoopDone(i, num_disks)
                  THEN pc' = "exit" /\ exit_status' = 0 /\ i' = i /\ UNCHANGED failed
                  ELSE pc' = "root_bitmap" /\ i' = i + 1 /\ UNCHANGED <<exit_status, failed>>
    /\ UNCHANGED <<argv, disk_size, raid_mode, num_disks, num_inodes,
                   num_blocks, superblock, root_inode, now, run, prev>>

\* The program is run a second time with the same command line, after a
\* first run that returned 0, on images of the same sizes that hold what the
\* images of the first run held before it (zeros, for one).
Rerun ==
    /\ pc = "exit" /\ exit_status = 0 /\ run = 1
    /\ prev' = disk
    /\ run' = 2
    /\ raid_mode' = 0 - 1
    /\ num_disks' = 0
    /\ num_inodes' = SzZero
    /\ num_blocks' = SzZero
    /\ superblock' = Unset
    /\ root_inode' = empty_inode
    /\ i' = 0
    /\ pc' = "args"
    /\ exit_status' = NotExited
    /\ disk' = [d \in Disks |-> NoCells]
    /\ log' = <<>>
    /\ failed' = "none"
    /\ UNCHANGED <<argv, disk_size, now>>

Next ==
    \/ ParseArgs
    \/ OpenDisk
    \/ WriteSuperblock
    \/ InitInodeBitmap
    \/ InitDataBitmap
    \/ InitializeInodes
    \/ RootInit
    \/ RootWrite
    \/ RootMalloc
    \/ RootBitmap

Spec == Init /\ [][Next]_vars

\* Two format runs one after the other in which no step fails: the runs a
\* statement about two successful runs is about.
NextTwice ==
    \/ failed' = "none" /\ ParseArgs
    \/ failed' = "none" /\ OpenDisk
    \/ failed' = "none" /\ WriteSuperblock
    \/ failed' = "none" /\ InitInodeBitmap
    \/ failed' = "none" /\ InitDataBitmap
    \/ failed' = "none" /\ InitializeInodes
    \/ failed' = "none" /\ RootInit
    \/ failed' = "none" /\ RootWrite
    \/ failed' = "none" /\ RootMalloc
    \/ failed' = "none" /\ RootBitmap
    \/ Rerun

SpecTwice == Init /\ [][NextTwice]_vars

(* ------------------------ reading the images back --------------------- *)

\* Byte offset off, below 2^31, is where an item of the row r starts.
OnRow(r, off) ==
    IF Fits(r.off) /\ Fits(r.count)
      THEN LET b == off - ToNat(r.off)
           IN  b >= 0 /\ b % r.step = 0 /\ b \div r.step < ToNat(r.count)
      ELSE InRow(r, Sz(off))

RECURSIVE LastRow(_, _, _)
\* The last of the first k rows that has an item at byte offset off, 0 if
\* none has.
LastRow(rows, off, k) ==
    IF k = 0 THEN 0
    ELSE IF OnRow(rows[k], off) THEN k
    ELSE LastRow(rows, off, k - 1)

\* The cell at byte offset off, below 2^31, of disk d: what the run wrote
\* there last, or the old content of the file.
CellAt(d, off) ==
    IF off \in DOMAIN disk[d].cells THEN disk[d].cells[off]
    ELSE LET k == LastRow(disk[d].rows, off, Len(disk[d].rows))
         IN  IF k = 0 THEN GarbageCell
             ELSE IF Fits(disk[d].rows[k].off) /\ ToNat(disk[d].rows[k].off) = off
               THEN disk[d].rows[k].first
             ELSE disk[d].rows[k].rest

\* The disks the run was given.
Given == 0..(argv.d - 1)

RECURSIVE BitOf(_, _)
\* Bit b of the 32-bit word w (bit 0 is the least significant).
BitOf(w, b) == IF b = 0 THEN w % 2 ELSE BitOf(w \div 2, b - 1)

\* Bit k of the bitmap at byte offset base of disk d: 0, 1, or 2 when the
\* word holding it is not a whole word the run wrote.
BitAt(d, base, k) ==
    LET c == CellAt(d, base + SizeofInt * (k \div 32))
    IN  IF c.t = "word" THEN BitOf(c.w, k % 32)
        ELSE 2

\* The run has left an all-zero inode record at byte offset off of disk d.
ZeroRecordAt(d, off) ==
    LET c == CellAt(d, off)
    IN  c.t = "inode" /\ c.ino = empty_inode

\* The inode record at byte offset off of disk d is the root directory.
RootRecordAt(d, off) ==
    LET c == CellAt(d, off)
    IN  /\ c.t = "inode"
        /\ c.ino.mode \div 4096 = S_IFDIR \div 4096
        /\ c.ino.mode % 4096 = RootPerm
        /\ c.ino.nlinks = 2
        /\ c.ino.size = 0
        /\ c.ino.blocks = {0}

\* The run has ended with exit status 0.
Succeeded == pc = "exit" /\ exit_status = 0

(* -------------------- the layout, in unbounded integers ---------------- *)

\* A size_t value with room above it for every carry of the layout's sums.
Wide(w) == w \o <<0, 0>>
WRoundUp32(x) == MulLimbs(DivRem(AddLimbs(x, Wide(Sz(31)), 0), 32).q, 32, 0)
WBitmapBytes(n) == MulLimbs(DivRem(AddLimbs(n, Wide(Sz(31)), 0), 32).q, SizeofInt, 0)
WBlockAlign(x) ==
    MulLimbs(DivRem(AddLimbs(x, Wide(Sz(BLOCK_SIZE - 1)), 0), BLOCK_SIZE).q, BLOCK_SIZE, 0)
WLe(a, b) == CmpLimbs(a, b) # 1

\* The layout of the requested counts as the specification states it.
TrueLayout(ni_req, nb_req) ==
    LET ni  == WRoundUp32(Wide(ni_req))
        nb  == WRoundUp32(Wide(nb_req))
        ibp == Wide(Sz(SizeofSb))
        dbp == AddLimbs(ibp, WBitmapBytes(ni), 0)
        itp == WBlockAlign(AddLimbs(dbp, WBitmapBytes(nb), 0))
        drp == AddLimbs(itp, MulLimbs(ni, BLOCK_SIZE, 0), 0)
    IN  [num_inodes |-> ni, num_data_blocks |-> nb,
         i_bitmap_ptr |-> ibp, d_bitmap_ptr |-> dbp,
         i_blocks_ptr |-> itp, d_blocks_ptr |-> drp,
         end |-> AddLimbs(drp, MulLimbs(nb, BLOCK_SIZE, 0), 0)]

(* -------------------------------- claims ------------------------------- *)

\* C1: the disk-too-small check rejects a disk exactly when the layout of the
\* requested counts, its end taken as an integer, is larger than the disk:
\* a disk that passed the check holds the layout, a rejected disk does not.
C1_TooSmallExactlyWhenLayoutDoesNotFit ==
    LET fits == WLe(TrueLayout(argv.i, argv.b).end, Wide(Sz(disk_size[i])))
    IN  /\ pc = "write_sb" => fits
        /\ failed = "too_small" => ~fits

\* C2: when the disk-too-small failure is reported, this run has issued no
\* write to any disk.
C2_TooSmallBeforeAnyWrite ==
    failed = "too_small" => log = <<>>

\* C6: every superblock written holds the layout of the requested counts:
\* both counts rounded up to the next multiple of 32, the inode bitmap right
\* after the superblock, the data bitmap right after the inode bitmap, the
\* inode table and the data region block-aligned, the data region right after
\* the inode table, and the regions in that order.
C6_LayoutOfWrittenSuperblock ==
    \A d \in Given :
      CellAt(d, 0).t = "sb" =>
        LET sb == CellAt(d, 0).sb
            t  == TrueLayout(argv.i, argv.b)
        IN  /\ Wide(sb.num_inodes) = t.num_inodes
            /\ Wide(sb.num_data_blocks) = t.num_data_blocks
            /\ sb.i_bitmap_ptr = Sz(SizeofSb)
            /\ Wide(sb.d_bitmap_ptr) = t.d_bitmap_ptr
            /\ DivRem(sb.i_blocks_ptr, BLOCK_SIZE).r = 0
            /\ DivRem(sb.d_blocks_ptr, BLOCK_SIZE).r = 0
            /\ Wide(sb.i_blocks_ptr) = t.i_blocks_ptr
            /\ Wide(sb.d_blocks_ptr) = t.d_blocks_ptr
            /\ WLe(t.i_bitmap_ptr, t.d_bitmap_ptr)
            /\ WLe(AddLimbs(t.d_bitmap_ptr, WBitmapBytes(t.num_data_blocks), 0),
                   t.i_blocks_ptr)
            /\ WLe(t.i_blocks_ptr, t.d_blocks_ptr)

\* C3: after a run that ended with exit status 0, every disk holds at offset
\* 0 the same superblock, field for field, whatever the disks' sizes, and it
\* is the superblock whose offsets the root inode bootstrapper wrote at.
C3_SuperblocksIdentical ==
    Succeeded =>
      \A d \in Given :
        /\ CellAt(d, 0) = SbCell(superblock)
        /\ \A e \in Given : CellAt(d, 0) = CellAt(e, 0)

\* C3 witness: a run over two disks of different sizes ended with exit status 0.
C3_Witness ==
    /\ Succeeded
    /\ disk_size[0] # disk_size[1]
    /\ CellAt(1, 0).t = "sb"

\* C4: after a run that ended with exit status 0, on every disk bit 0 of the
\* inode bitmap is set, bits 1 .. num_inodes-1 of it are clear, and bits
\* 0 .. num_data_blocks-1 of the data bitmap are clear.
C4_BitmapsAfterFormat ==
    Succeeded =>
      \A d \in Given :
        LET sb == CellAt(d, 0).sb
            ib == ToNat(sb.i_bitmap_ptr)
            db == ToNat(sb.d_bitmap_ptr)
        IN  /\ BitAt(d, ib, 0) = 1
            /\ \A k \in 1..(ToNat(sb.num_inodes) - 1) : BitAt(d, ib, k) = 0
            /\ \A k \in 0..(ToNat(sb.num_data_blocks) - 1) : BitAt(d, db, k) = 0

\* C5: after a run that ended with exit status 0, on every disk the record at
\* inode_table_offset is a directory with permission bits 0755, link count 2,
\* size 0 and all block pointers zero, and the record of every other slot k,
\* 1 <= k < num_inodes, at inode_table_offset + k*512, is all-zero.
C5_InodeTableAfterFormat ==
    Succeeded =>
      \A d \in Given :
        LET sb == CellAt(d, 0).sb
            it == ToNat(sb.i_blocks_ptr)
        IN  /\ RootRecordAt(d, it)
            /\ \A k \in 1..(ToNat(sb.num_inodes) - 1) :
                 ZeroRecordAt(d, it + k * BLOCK_SIZE)

\* C5 witness: a run with 64 inode slots ended with exit status 0 and has
\* written the last slot of the second disk.
C5_Witness ==
    /\ Succeeded
    /\ superblock.num_inodes = Sz(64)
    /\ CellAt(1, ToNat(superblock.i_blocks_ptr) + 63 * BLOCK_SIZE).t = "inode"

\* The cells with the owner, the group and the three timestamps of every
\* inode record blanked.
MaskedCells(cells) ==
    [o \in DOMAIN cells |->
       IF cells[o].t = "inode"
         THEN InodeCell([cells[o].ino EXCEPT !.uid = 0, !.gid = 0,
                                            !.atim = 0, !.mtim = 0, !.ctim = 0])
         ELSE cells[o]]

\* The image with the owner, the group and the three timestamps of every
\* inode record blanked.
Masked(img) ==
    [img EXCEPT !.cells = MaskedCells(img.cells), !.far = MaskedCells(img.far)]

\* The second of two runs has ended with exit status 0, as the first did.
BothSucceeded == run = 2 /\ Succeeded

\* C7 as stated: two successful runs with the same parameters on zeroed images
\* of equal size leave byte-identical images, the root inode's owner, group
\* and timestamps included, whenever each of them runs.  (The images held the
\* same zeros before, so they are byte-identical when the runs wrote the same.)
C7_ByteIdenticalWhenever ==
    BothSucceeded => \A d \in Given : disk[d] = prev[d]

\* C7 as amended: the two runs leave images that are identical except for the
\* owner, the group and the three timestamps of the root inode record.
C7_IdenticalUpToOwnerAndTimes ==
    BothSucceeded => \A d \in Given : Masked(disk[d]) = Masked(prev[d])

\* C7 witness: two successful runs whose images differ in a timestamp only.
C7_Witness ==
    /\ BothSucceeded
    /\ disk[1] # prev[1]
    /\ Masked(disk[1]) = Masked(prev[1])
    /\ superblock.num_inodes = Sz(64)

\* A pwrite call of the log that did not write all it was asked to.
FailedWrite(e) == e.ret # e.count

\* The steps of a format run on one disk.
StageOneOps == {"sb", "ibitmap", "dbitmap", "inodes"}
RootOps == {"root_inode", "root_bit"}

\* Step op on disk d was issued and wrote all it was asked to.
Done(l, d, op) == \E k \in 1..Len(l) : l[k].d = d /\ l[k].op = op /\ ~FailedWrite(l[k])

\* C8: a step that fails ends the run with a nonzero exit status at once, no
\* write is issued after a failed step, and exit status 0 is reached only if
\* no step failed and every step was done on every disk.
C8_AbortOnFirstFailure ==
    [][ /\ (failed' # "none" \/ \E k \in 1..Len(log') : FailedWrite(log'[k]))
           => (pc' = "exit" /\ exit_status' \notin {0, NotExited})
        /\ (failed # "none" \/ \E k \in 1..Len(log) : FailedWrite(log[k]))
           => log' = log
        /\ exit_status' = 0
           => /\ failed' = "none"
              /\ \A k \in 1..Len(log') : ~FailedWrite(log'[k])
              /\ \A d \in Given : \A op \in StageOneOps \cup RootOps : Done(log', d, op)
      ]_vars

\* C8 witness: a short write of the root inode's bitmap word on the second
\* disk ended a run, after every earlier step had succeeded.
C8_Witness ==
    /\ failed = "root_bit"
    /\ log[Len(log)].d = 1
    /\ log[Len(log)].ret \notin {SzZero, SIZE_MAX}
    /\ exit_status = EXIT_FAILURE

\* C9: a root inode or a root bitmap word is written only after every disk
\* of the run has had its superblock, both bitmaps and its whole inode table
\* written successfully.
C9_RootAfterStageOneOfEveryDisk ==
    \A k \in 1..Len(log) :
      log[k].op \in RootOps =>
        \A d \in Given : \A op \in StageOneOps :
          \E j \in 1..(k - 1) : log[j].d = d /\ log[j].op = op /\ ~FailedWrite(log[j])

\* C9 witness: the root inode has been written to the first disk of two.
C9_Witness ==
    /\ Len(log) > 0
    /\ log[Len(log)].op = "root_inode"
    /\ log[Len(log)].d = 0
    /\ argv.d >= 2

\* Slot k of disk d is consistent: its record is all-zero, or it is a valid
\* inode record and bit k of the inode bitmap of that disk is set.
SlotConsistent(d, k) ==
    LET c == CellAt(d, ToNat(superblock.i_blocks_ptr) + k * BLOCK_SIZE)
    IN  /\ c.t = "inode"
        /\ \/ c.ino = empty_inode
           \/ /\ c.ino.nlinks > 0
              /\ c.ino.num = k
              /\ BitAt(d, ToNat(superblock.i_bitmap_ptr), k) = 1

\* The slots of the inode table the superblock describes.
Slots ==
    0..((IF Fits(superblock.num_inodes) THEN ToNat(superblock.num_inodes) ELSE 0) - 1)

\* Disk d has had its inode bitmap and its inode table initialised.
TableInitialised(d) == Done(log, d, "ibitmap") /\ Done(log, d, "inodes")

\* C10 as stated: in every state after a disk's inode bitmap and inode table
\* have been initialised, states inside the root inode bootstrapper and the
\* last state of an aborted run included, every slot of that disk is consistent.
C10_ConsistentInEveryState ==
    \A d \in Given :
      TableInitialised(d) =>
        \A k \in Slots : SlotConsistent(d, k)

\* The root inode has been sent to disk d and the write of its bitmap word to
\* disk d has not succeeded.
RootHalfWritten(d) ==
    /\ \E k \in 1..Len(log) : log[k].d = d /\ log[k].op = "root_inode"
    /\ ~Done(log, d, "root_bit")

\* C10 as amended: in every state after a disk's inode bitmap and inode table
\* have been initialised every slot of that disk is consistent, except slot 0
\* from the write of the root inode to that disk until the write of its
\* bitmap word to that disk succeeds; a run that ended with exit status 0 has
\* left no disk in that exception.
C10_ConsistentOutsideRootWindow ==
    \A d \in Given :
      TableInitialised(d) =>
        \A k \in Slots :
          \/ SlotConsistent(d, k)
          \/ k = 0 /\ RootHalfWritten(d) /\ ~Succeeded

\* C10 witness: a successful run left the root inode in slot 0 of the last
\* disk with bit 0 of that disk's inode bitmap set.
C10_Witness ==
    /\ Succeeded
    /\ CellAt(1, ToNat(superblock.i_blocks_ptr)).t = "inode"
    /\ ~ZeroRecordAt(1, ToNat(superblock.i_blocks_ptr))
    /\ BitAt(1, ToNat(superblock.i_bitmap_ptr), 0) = 1
    /\ superblock.num_inodes = Sz(32)

====
